---------------------------- MODULE Spec2Model ----------------------------
(***************************************************************************)
(* Model of the PQRS dashboard: the analytic queries of                    *)
(* DashboardRepository and their composition in DashboardService, over     *)
(* the pqrs table (the case store).                                        *)
(*                                                                         *)
(* Representation.  Timestamps are whole hours since 2024-01-01 00:00 (a   *)
(* Monday); filter dates are whole days since 2024-01-01.  Optional values *)
(* are the empty tuple (None / NULL) or a one-element tuple.  Percentages, *)
(* rates and rounded averages are integers counting hundredths             *)
(* (7500 is 75.0).  A query without ORDER BY yields its rows as a set.     *)
(* The queries are modelled as written: PQRS.status compared with the      *)
(* status names and PQRS.department_id compared with the filter value.     *)
(*                                                                         *)
(* An operation is served either in one step on one store content, or      *)
(* (get_kpis and get_overview) one awaited statement at a time: the        *)
(* request then carries the statement awaited (pc), the results so far     *)
(* (locals), the statement that raised and whether the store stopped       *)
(* answering.  The colour of the semaphore is computed by code outside     *)
(* this source tree; SemaphoreState follows the specification with the     *)
(* thresholds of Settings.                                                 *)
(***************************************************************************)
EXTENDS Integers, Sequences, FiniteSets, TLC

VARIABLES cases, comments, request, response

vars == <<cases, comments, request, response>>

(* Largest number of rows of the pqrs table. *)
MaxCases == 2

None == <<>>

Some(x) == <<x>>

HoursPerDay == 24

(* PQRSType, the values of the pqrs.type column. *)
PQRSType == {"peticion", "queja", "reclamo", "sugerencia"}

(* The status names the dashboard queries compare PQRS.status with. *)
StatusNames ==
    {"nueva", "en_proceso", "en_revision", "pendiente_informacion", "resuelta", "cerrada"}

(* Ids of the users rows cases are assigned to. *)
ManagerIds == {1, 2}

(* Departments referenced by PQRS.department_id. *)
DepartmentIds == {1, 2}

(* ----------------------------------------------------------------------- *)
(* Arithmetic                                                              *)
(* ----------------------------------------------------------------------- *)

RECURSIVE SumOver(_, _)
(* The sum of f[x] over the finite set S. *)
SumOver(S, f) ==
    IF S = {} THEN 0
    ELSE LET x == CHOOSE y \in S : TRUE IN f[x] + SumOver(S \ {x}, f)

(* n / d rounded to the nearest integer, ties to even (d > 0, n >= 0). *)
RoundDiv(n, d) ==
    LET q == n \div d
        r == n % d
    IN  IF 2 * r < d THEN q
        ELSE IF 2 * r > d THEN q + 1
        ELSE IF q % 2 = 0 THEN q ELSE q + 1

(* round(n / d, 2), in hundredths. *)
Round2(n, d) == RoundDiv(100 * n, d)

(* Python truthiness of an optional number: None and 0 are falsy. *)
Truthy(opt) == opt # None /\ opt[1] # 0

(* ----------------------------------------------------------------------- *)
(* The case store                                                          *)
(* ----------------------------------------------------------------------- *)

(* The primary keys of the pqrs rows. *)
Ids == 1 .. Len(cases)

IsTerminal(c) == c.status = "resuelta" \/ c.status = "cerrada"

(* extract(epoch from updated_at - created_at), in hours. *)
ResolutionHours(c) == c.updated_at - c.created_at

(* _apply_filters: the rows a query keeps under (start_date, end_date,     *)
(* department_id); a date compares as its midnight, and a falsy            *)
(* department_id (None or 0) adds no condition.                            *)
ApplyFilters(rows, start_date, end_date, department_id) ==
    {i \in rows :
        /\ (start_date # None => cases[i].created_at >= start_date[1] * HoursPerDay)
        /\ (end_date # None => cases[i].created_at <= end_date[1] * HoursPerDay)
        /\ (Truthy(department_id) => cases[i].department_id = department_id[1])}

(* The date conditions the queries without department filter add inline. *)
ApplyDates(rows, start_date, end_date) ==
    {i \in rows :
        /\ (start_date # None => cases[i].created_at >= start_date[1] * HoursPerDay)
        /\ (end_date # None => cases[i].created_at <= end_date[1] * HoursPerDay)}

(* SQL AVG of the resolution days of the terminal rows among S: NULL when  *)
(* none, else the exact mean as a fraction num / den.                      *)
AvgResolutionDays(S) ==
    LET T == {i \in S : IsTerminal(cases[i])}
    IN  IF T = {} THEN None
        ELSE Some([num |-> SumOver(T, [i \in T |-> ResolutionHours(cases[i])]),
                   den |-> HoursPerDay * Cardinality(T)])

(* round(avg, 2) if avg else None *)
RoundOrNone(avg) ==
    IF avg # None /\ avg[1].num # 0 THEN Some(Round2(avg[1].num, avg[1].den)) ELSE None

(* ----------------------------------------------------------------------- *)
(* KPI queries                                                             *)
(* ----------------------------------------------------------------------- *)

GetTotalPqrs(start_date, end_date, department_id) ==
    Cardinality(ApplyFilters(Ids, start_date, end_date, department_id))

(* GetPqrsByStatus with the date conditions left out. *)
GetPqrsByStatusNoDates(status, start_date, end_date, department_id) ==
    Cardinality(ApplyFilters({i \in Ids : cases[i].status = status},
                             None, None, department_id))

GetPqrsByStatus(status, start_date, end_date, department_id) ==
    Cardinality(ApplyFilters({i \in Ids : cases[i].status = status},
                             start_date, end_date, department_id))

(* ----------------------------------------------------------------------- *)
(* Statistics by type and by status                                        *)
(* ----------------------------------------------------------------------- *)

(* round(count / total * 100, 2) if total > 0 else 0.0 *)
Percentage(count, total) ==
    IF total > 0 THEN Round2(count * 100, total) ELSE 0

(* RepoStatisticsByType with the grouped query losing the department      *)
(* condition.                                                              *)
RepoStatisticsByTypeNoDepartment(start_date, end_date, department_id) ==
    LET total == GetTotalPqrs(start_date, end_date, department_id)
        kept == ApplyDates(Ids, start_date, end_date)
        Group(t) == {i \in kept : cases[i].type = t}
    IN  {[type |-> t,
          count |-> Cardinality(Group(t)),
          percentage |-> Percentage(Cardinality(Group(t)), total),
          resolved |-> Cardinality({i \in Group(t) : IsTerminal(cases[i])}),
          avg_resolution_days |-> RoundOrNone(AvgResolutionDays(Group(t)))]
         : t \in {cases[i].type : i \in kept}}

(* RepoStatisticsByType with the percentages taken against the total of    *)
(* the whole table.                                                        *)
RepoStatisticsByTypeGlobalTotal(start_date, end_date, department_id) ==
    LET total == GetTotalPqrs(None, None, None)
        kept == ApplyFilters(Ids, start_date, end_date, department_id)
        Group(t) == {i \in kept : cases[i].type = t}
    IN  {[type |-> t,
          count |-> Cardinality(Group(t)),
          percentage |-> Percentage(Cardinality(Group(t)), total),
          resolved |-> Cardinality({i \in Group(t) : IsTerminal(cases[i])}),
          avg_resolution_days |-> RoundOrNone(AvgResolutionDays(Group(t)))]
         : t \in {cases[i].type : i \in kept}}

RepoStatisticsByType(start_date, end_date, department_id) ==
    LET total == GetTotalPqrs(start_date, end_date, department_id)
        kept == ApplyFilters(Ids, start_date, end_date, department_id)
        Group(t) == {i \in kept : cases[i].type = t}
    IN  {[type |-> t,
          count |-> Cardinality(Group(t)),
          percentage |-> Percentage(Cardinality(Group(t)), total),
          resolved |-> Cardinality({i \in Group(t) : IsTerminal(cases[i])}),
          avg_resolution_days |-> RoundOrNone(AvgResolutionDays(Group(t)))]
         : t \in {cases[i].type : i \in kept}}

(* SQL AVG of extract(epoch from now() - updated_at) / 86400 over S. *)
AvgDaysInStatus(S, now) ==
    IF S = {} THEN None
    ELSE Some([num |-> SumOver(S, [i \in S |-> now - cases[i].updated_at]),
               den |-> HoursPerDay * Cardinality(S)])

RepoStatisticsByStatus(start_date, end_date, department_id, now) ==
    LET total == GetTotalPqrs(start_date, end_date, department_id)
        kept == ApplyFilters(Ids, start_date, end_date, department_id)
        Group(s) == {i \in kept : cases[i].status = s}
    IN  {[status |-> s,
          count |-> Cardinality(Group(s)),
          percentage |-> Percentage(Cardinality(Group(s)), total),
          avg_days_in_status |-> RoundOrNone(AvgDaysInStatus(Group(s), now))]
         : s \in {cases[i].status : i \in kept}}

(* ----------------------------------------------------------------------- *)
(* Remaining KPI queries                                                   *)
(* ----------------------------------------------------------------------- *)

(* min(Comment.created_at) of the comments of case i (the subquery's row). *)
FirstCommentAt(i) ==
    LET at == {c.created_at : c \in {k \in comments : k.pqrs_id = i}}
    IN  CHOOSE t \in at : \A u \in at : t <= u

(* SQL AVG of the hours from creation to first comment over the rows of S  *)
(* the join with the first-comment subquery keeps.                         *)
AvgResponseHours(S) ==
    LET joined == {i \in S : \E c \in comments : c.pqrs_id = i}
    IN  IF joined = {} THEN None
        ELSE Some([num |-> SumOver(joined,
                              [i \in joined |-> FirstCommentAt(i) - cases[i].created_at]),
                   den |-> Cardinality(joined)])

GetAvgResponseTimeHours(start_date, end_date) ==
    RoundOrNone(AvgResponseHours(ApplyDates(Ids, start_date, end_date)))

GetAvgResolutionTimeDays(start_date, end_date) ==
    RoundOrNone(AvgResolutionDays(ApplyDates(Ids, start_date, end_date)))

(* GetResolutionRate returning the fraction, not multiplied by 100. *)
GetResolutionRateAsFraction(start_date, end_date) ==
    LET total == GetTotalPqrs(start_date, end_date, None)
        resolved == GetPqrsByStatus("resuelta", start_date, end_date, None)
        closed == GetPqrsByStatus("cerrada", start_date, end_date, None)
    IN  IF total = 0 THEN 0 ELSE Round2(resolved + closed, total)

GetResolutionRate(start_date, end_date) ==
    LET total == GetTotalPqrs(start_date, end_date, None)
        resolved == GetPqrsByStatus("resuelta", start_date, end_date, None)
        closed == GetPqrsByStatus("cerrada", start_date, end_date, None)
    IN  IF total = 0 THEN 0 ELSE Round2((resolved + closed) * 100, total)

(* GetActiveManagersCount counting every assignee, whatever the status of  *)
(* the cases assigned.                                                     *)
GetActiveManagersCountAnyStatus ==
    Cardinality({cases[i].assigned_to[1] :
                    i \in {j \in Ids : cases[j].assigned_to # None}})

GetActiveManagersCount ==
    Cardinality({cases[i].assigned_to[1] :
                    i \in {j \in Ids : /\ cases[j].assigned_to # None
                                       /\ cases[j].status \notin {"resuelta", "cerrada"}}})

(* ----------------------------------------------------------------------- *)
(* Manager performance                                                     *)
(* ----------------------------------------------------------------------- *)

(* users.full_name of the user joined on PQRS.assigned_to. *)
FullName(m) == <<"gestor", m>>

(* The assigned rows the manager query keeps. *)
AssignedRows(start_date, end_date) ==
    ApplyDates({i \in Ids : cases[i].assigned_to # None}, start_date, end_date)

(* ManagerRow with the unassigned rows counted in the group of every       *)
(* manager.                                                                *)
ManagerRowWithUnassigned(m, kept) ==
    LET mine == {i \in Ids : cases[i].assigned_to = Some(m)
                                \/ cases[i].assigned_to = None}
        total == Cardinality(mine)
        resolved == Cardinality({i \in mine : IsTerminal(cases[i])})
    IN  [manager_id |-> m,
         manager_name |-> FullName(m),
         total_assigned |-> total,
         resolved |-> resolved,
         in_progress |-> Cardinality({i \in mine : cases[i].status \in
                            {"en_proceso", "en_revision", "pendiente_informacion"}}),
         avg_resolution_days |-> RoundOrNone(AvgResolutionDays(mine)),
         resolution_rate |-> IF total > 0 THEN Round2(resolved * 100, total) ELSE 0]

(* ManagerRow with in_progress counting every row of the group that is not *)
(* en_proceso.                                                             *)
ManagerRowOverlapping(m, kept) ==
    LET mine == {i \in kept : cases[i].assigned_to = Some(m)}
        total == Cardinality(mine)
        resolved == Cardinality({i \in mine : IsTerminal(cases[i])})
    IN  [manager_id |-> m,
         manager_name |-> FullName(m),
         total_assigned |-> total,
         resolved |-> resolved,
         in_progress |-> Cardinality({i \in mine : cases[i].status # "en_proceso"}),
         avg_resolution_days |-> RoundOrNone(AvgResolutionDays(mine)),
         resolution_rate |-> IF total > 0 THEN Round2(resolved * 100, total) ELSE 0]

(* The dictionary built for the group of manager m. *)
ManagerRow(m, kept) ==
    LET mine == {i \in kept : cases[i].assigned_to = Some(m)}
        total == Cardinality(mine)
        resolved == Cardinality({i \in mine : IsTerminal(cases[i])})
    IN  [manager_id |-> m,
         manager_name |-> FullName(m),
         total_assigned |-> total,
         resolved |-> resolved,
         in_progress |-> Cardinality({i \in mine : cases[i].status \in
                            {"en_proceso", "en_revision", "pendiente_informacion"}}),
         avg_resolution_days |-> RoundOrNone(AvgResolutionDays(mine)),
         resolution_rate |-> IF total > 0 THEN Round2(resolved * 100, total) ELSE 0]

(* The orders ORDER BY count(PQRS.id) DESC allows for the groups: every    *)
(* arrangement with non-increasing counts (equal counts in any order).     *)
OrderByCountDesc(groups, kept) ==
    LET n == Cardinality(groups)
        Count(m) == Cardinality({i \in kept : cases[i].assigned_to = Some(m)})
    IN  {p \in [1 .. n -> groups] :
            /\ \A a, b \in 1 .. n : a # b => p[a] # p[b]
            /\ \A a, b \in 1 .. n : a < b => Count(p[a]) >= Count(p[b])}

(* Every list get_manager_performance may return. *)
RepoManagerPerformance(start_date, end_date, limit) ==
    LET kept == AssignedRows(start_date, end_date)
        groups == {cases[i].assigned_to[1] : i \in kept}
        n == IF limit < Cardinality(groups) THEN limit ELSE Cardinality(groups)
    IN  {[k \in 1 .. n |-> ManagerRow(p[k], kept)] : p \in OrderByCountDesc(groups, kept)}

(* ----------------------------------------------------------------------- *)
(* Period labels                                                           *)
(* ----------------------------------------------------------------------- *)

IsLeapYear(y) == (y % 4 = 0 /\ y % 100 # 0) \/ y % 400 = 0

DaysInYear(y) == IF IsLeapYear(y) THEN 366 ELSE 365

DaysInMonth(y, m) ==
    IF m = 2 THEN (IF IsLeapYear(y) THEN 29 ELSE 28)
    ELSE IF m \in {4, 6, 9, 11} THEN 30 ELSE 31

RECURSIVE YearAndDay(_, _)
(* The year, and the day within it (from 0), of day d counted from 1 Jan y. *)
YearAndDay(y, d) ==
    IF d < DaysInYear(y) THEN [year |-> y, yday |-> d]
    ELSE YearAndDay(y + 1, d - DaysInYear(y))

RECURSIVE MonthOf(_, _, _)
(* The month of day d counted from the first day of month m of year y. *)
MonthOf(y, m, d) ==
    IF d < DaysInMonth(y, m) THEN m ELSE MonthOf(y, m + 1, d - DaysInMonth(y, m))

RECURSIVE Pow10(_)
Pow10(k) == IF k = 0 THEN 1 ELSE 10 * Pow10(k - 1)

(* n as `width` decimal digits, each character by its ASCII code. *)
Digits(n, width) == [k \in 1 .. width |-> 48 + ((n \div Pow10(width - k)) % 10)]

(* to_char(ts, 'YYYY-MM') *)
ToCharMonth(ts) ==
    LET yd == YearAndDay(2024, ts \div HoursPerDay)
    IN  Digits(yd.year, 4) \o <<45>> \o Digits(MonthOf(yd.year, 1, yd.yday), 2)

(* to_char(ts, 'IYYY-IW'): the ISO year and week, those of the Thursday of *)
(* the timestamp's Monday-to-Sunday week.                                  *)
ToCharIsoWeek(ts) ==
    LET d == ts \div HoursPerDay
        thursday == d - (d % 7) + 3
        yd == YearAndDay(2024, thursday)
    IN  Digits(yd.year, 4) \o <<45>> \o Digits(yd.yday \div 7 + 1, 2)

(* a < b as character strings. *)
LexLess(a, b) ==
    \/ \E k \in 1 .. Len(a) :
          /\ k <= Len(b)
          /\ a[k] < b[k]
          /\ \A j \in 1 .. k - 1 : a[j] = b[j]
    \/ Len(a) < Len(b) /\ \A j \in 1 .. Len(a) : a[j] = b[j]

RECURSIVE SortDesc(_)
(* ORDER BY period DESC over the set of group labels. *)
SortDesc(S) ==
    IF S = {} THEN <<>>
    ELSE LET top == CHOOSE x \in S : \A y \in S \ {x} : LexLess(y, x)
         IN  <<top>> \o SortDesc(S \ {top})

(* LIMIT n *)
Limit(rows, n) == SubSeq(rows, 1, IF n < Len(rows) THEN n ELSE Len(rows))

(* Reversed leaving the rows in the order of the query. *)
NotReversed(rows) == rows

(* list(reversed(rows)) *)
Reversed(rows) == [k \in 1 .. Len(rows) |-> rows[Len(rows) + 1 - k]]

(* ----------------------------------------------------------------------- *)
(* Trends                                                                  *)
(* ----------------------------------------------------------------------- *)

(* The dictionary built for the group of rows with period label p. *)
TrendRow(p, group) ==
    [period |-> p,
     count |-> Cardinality(group),
     resolved |-> Cardinality({i \in group : IsTerminal(cases[i])}),
     avg_resolution_days |-> RoundOrNone(AvgResolutionDays(group))]

GetTrendsByMonth(start_date, end_date, months) ==
    LET kept == ApplyDates(Ids, start_date, end_date)
        periods == {ToCharMonth(cases[i].created_at) : i \in kept}
        rows == Limit(SortDesc(periods), months)
        trends == [k \in 1 .. Len(rows) |->
                      TrendRow(rows[k],
                               {i \in kept : ToCharMonth(cases[i].created_at) = rows[k]})]
    IN  Reversed(trends)

GetTrendsByWeek(start_date, end_date, weeks) ==
    LET kept == ApplyDates(Ids, start_date, end_date)
        periods == {ToCharIsoWeek(cases[i].created_at) : i \in kept}
        rows == Limit(SortDesc(periods), weeks)
        trends == [k \in 1 .. Len(rows) |->
                      TrendRow(rows[k],
                               {i \in kept : ToCharIsoWeek(cases[i].created_at) = rows[k]})]
    IN  Reversed(trends)

(* ----------------------------------------------------------------------- *)
(* Time analysis                                                           *)
(* ----------------------------------------------------------------------- *)

(* BucketOf with every threshold compared by <= instead of < . *)
BucketOfInclusive(c) ==
    LET hours == ResolutionHours(c)
    IN  IF hours <= 1 * HoursPerDay THEN "resolved_within_24h"
        ELSE IF hours <= 3 * HoursPerDay THEN "resolved_within_3d"
        ELSE IF hours <= 7 * HoursPerDay THEN "resolved_within_7d"
        ELSE IF hours <= 15 * HoursPerDay THEN "resolved_within_15d"
        ELSE "resolved_over_15d"

(* The counter the loop of get_time_analysis increments for one row:       *)
(* days = delta.total_seconds() / 86400, so days < n is hours < n * 24.    *)
BucketOf(c) ==
    LET hours == ResolutionHours(c)
    IN  IF hours < 1 * HoursPerDay THEN "resolved_within_24h"
        ELSE IF hours < 3 * HoursPerDay THEN "resolved_within_3d"
        ELSE IF hours < 7 * HoursPerDay THEN "resolved_within_7d"
        ELSE IF hours < 15 * HoursPerDay THEN "resolved_within_15d"
        ELSE "resolved_over_15d"

RepoTimeAnalysis(start_date, end_date) ==
    LET kept == ApplyDates(Ids, start_date, end_date)
        pqrs_list == {i \in kept : IsTerminal(cases[i])}
        Counted(b) == Cardinality({i \in pqrs_list : BucketOf(cases[i]) = b})
    IN  [avg_resolution_days |-> RoundOrNone(AvgResolutionDays(kept)),
         median_resolution_days |-> None,
         resolved_within_24h |-> Counted("resolved_within_24h"),
         resolved_within_3d |-> Counted("resolved_within_3d"),
         resolved_within_7d |-> Counted("resolved_within_7d"),
         resolved_within_15d |-> Counted("resolved_within_15d"),
         resolved_over_15d |-> Counted("resolved_over_15d")]

(* ----------------------------------------------------------------------- *)
(* DashboardService                                                        *)
(* ----------------------------------------------------------------------- *)

TopManagersLimit == 5

RecentTrendMonths == 6

GetKpis(start_date, end_date, department_id) ==
    [total_pqrs |-> GetTotalPqrs(start_date, end_date, department_id),
     new_pqrs |-> GetPqrsByStatus("nueva", start_date, end_date, department_id),
     in_progress |-> GetPqrsByStatus("en_proceso", start_date, end_date, department_id),
     resolved |-> GetPqrsByStatus("resuelta", start_date, end_date, department_id),
     closed |-> GetPqrsByStatus("cerrada", start_date, end_date, department_id),
     avg_response_time_hours |-> GetAvgResponseTimeHours(start_date, end_date),
     avg_resolution_time_days |-> GetAvgResolutionTimeDays(start_date, end_date),
     resolution_rate |-> GetResolutionRate(start_date, end_date),
     satisfaction_rate |-> None,
     active_managers |-> GetActiveManagersCount]

GetStatisticsByType(start_date, end_date, department_id) ==
    LET statistics == RepoStatisticsByType(start_date, end_date, department_id)
    IN  [statistics |-> statistics,
         total |-> SumOver(statistics, [r \in statistics |-> r.count])]

GetStatisticsByStatus(start_date, end_date, department_id, now) ==
    LET statistics == RepoStatisticsByStatus(start_date, end_date, department_id, now)
    IN  [statistics |-> statistics,
         total |-> SumOver(statistics, [r \in statistics |-> r.count])]

(* Every response get_manager_performance may give. *)
GetManagerPerformance(start_date, end_date, limit) ==
    {[managers |-> managers, total_managers |-> Len(managers)]
       : managers \in RepoManagerPerformance(start_date, end_date, limit)}

GetTrendsMonthly(start_date, end_date, months) ==
    LET trends == GetTrendsByMonth(start_date, end_date, months)
    IN  [trends |-> trends, period_type |-> "monthly", total_periods |-> Len(trends)]

GetTrendsWeekly(start_date, end_date, weeks) ==
    LET trends == GetTrendsByWeek(start_date, end_date, weeks)
    IN  [trends |-> trends, period_type |-> "weekly", total_periods |-> Len(trends)]

GetTimeAnalysis(start_date, end_date) ==
    LET data == RepoTimeAnalysis(start_date, end_date)
    IN  [avg_first_response_hours |-> GetAvgResponseTimeHours(start_date, end_date),
         avg_resolution_days |-> data.avg_resolution_days,
         median_resolution_days |-> data.median_resolution_days,
         resolved_within_24h |-> data.resolved_within_24h,
         resolved_within_3d |-> data.resolved_within_3d,
         resolved_within_7d |-> data.resolved_within_7d,
         resolved_within_15d |-> data.resolved_within_15d,
         resolved_over_15d |-> data.resolved_over_15d]

(* GetOverview asking for the managers without the limit of 5. *)
GetOverviewEveryManager(start_date, end_date, department_id, now) ==
    {[kpis |-> GetKpis(start_date, end_date, department_id),
      by_type |-> RepoStatisticsByType(start_date, end_date, department_id),
      by_status |-> RepoStatisticsByStatus(start_date, end_date, department_id, now),
      top_managers |-> top,
      recent_trends |-> GetTrendsByMonth(start_date, end_date, RecentTrendMonths),
      generated_at |-> now,
      period_start |-> start_date,
      period_end |-> end_date]
       : top \in RepoManagerPerformance(start_date, end_date, Len(cases))}

(* Every overview get_overview may give (one per order of the managers). *)
GetOverview(start_date, end_date, department_id, now) ==
    {[kpis |-> GetKpis(start_date, end_date, department_id),
      by_type |-> RepoStatisticsByType(start_date, end_date, department_id),
      by_status |-> RepoStatisticsByStatus(start_date, end_date, department_id, now),
      top_managers |-> top,
      recent_trends |-> GetTrendsByMonth(start_date, end_date, RecentTrendMonths),
      generated_at |-> now,
      period_start |-> start_date,
      period_end |-> end_date]
       : top \in RepoManagerPerformance(start_date, end_date, TopManagersLimit)}

(* ----------------------------------------------------------------------- *)
(* Inputs                                                                  *)
(* ----------------------------------------------------------------------- *)

(* Instants of creation: 1 Jan 2024 and 3 Jan 2024, 00:00. *)
CreationTimes == {0, 48}

(* Hours from creation to the last update. *)
UpdateDelays == {0, 48}

(* start_date / end_date of a request: absent, or 2 Jan 2024. *)
FilterDates == {None, Some(1)}

(* department_id of a request. *)
FilterDepartments == {None, Some(1)}

(* The value of now() while a request is served: 6 Jan 2024, 00:00. *)
Clock == {120}

(* limit of a manager performance request (the router admits 1 .. 50). *)
ManagerLimits == {1, 2}

(* Instants of creation for the trends: 1 Jan, 10 Jan and 1 Feb 2024,      *)
(* Monday 30 Dec 2024 (ISO week 1 of 2025) and 1 Jan 2025, all at 00:00.   *)
TrendCreationTimes == {0, 216, 744, 8736, 8784}

(* start_date / end_date of a trends request: absent, 5 Jan or 31 Dec 2024. *)
TrendFilterDates == {None, Some(4), Some(365)}

(* months / weeks of a trends request (the router admits 1 .. 24 / 52). *)
TrendWindows == {1, 2, 3}

NoRequest == [op |-> "none"]

(* ----------------------------------------------------------------------- *)
(* Actions                                                                 *)
(* ----------------------------------------------------------------------- *)

(* A row is inserted in the pqrs table, its columns drawn from the given   *)
(* sets.  Requests are served one at a time, each on one store content.    *)
CreateCase(types, statuses, createds, delays, assignees, departments) ==
    /\ request = NoRequest
    /\ Len(cases) < MaxCases
    /\ \E t \in types, s \in statuses, c \in createds, d \in delays,
          a \in assignees, p \in departments :
          cases' = Append(cases, [type |-> t, status |-> s, created_at |-> c,
                                  updated_at |-> c + d, assigned_to |-> a,
                                  department_id |-> p])
    /\ UNCHANGED <<comments, request, response>>

(* A comment is added to an existing case, delay hours after its creation. *)
AddComment(delays) ==
    /\ request = NoRequest
    /\ \E i \in Ids, d \in delays :
          /\ \A c \in comments : c.pqrs_id # i
          /\ comments' = comments \cup
                            {[pqrs_id |-> i, created_at |-> cases[i].created_at + d]}
    /\ UNCHANGED <<cases, request, response>>

(* A further comment is added to a case, delay hours after its creation. *)
AddFurtherComment(delays) ==
    /\ request = NoRequest
    /\ \E i \in Ids, d \in delays :
          LET comment == [pqrs_id |-> i, created_at |-> cases[i].created_at + d]
          IN  /\ comment \notin comments
              /\ comments' = comments \cup {comment}
    /\ UNCHANGED <<cases, request, response>>

(* The users cases are assigned to in turn: one more than get_overview     *)
(* lists.                                                                  *)
TeamIds == 1 .. TopManagersLimit + 1

(* A row is inserted for the next manager of the team in turn, the first   *)
(* manager being the only one to get a second case.                        *)
CreateTeamCase(statuses) ==
    /\ request = NoRequest
    /\ Len(cases) <= Cardinality(TeamIds)
    /\ \E s \in statuses :
          cases' = Append(cases,
                          [type |-> "peticion",
                           status |-> IF cases = <<>> THEN s ELSE "en_proceso",
                           created_at |-> 0, updated_at |-> 48,
                           assigned_to |-> Some((Len(cases) % Cardinality(TeamIds)) + 1),
                           department_id |-> 1])
    /\ UNCHANGED <<comments, request, response>>

KpisRequest ==
    /\ request = NoRequest
    /\ \E s \in FilterDates, e \in FilterDates, d \in FilterDepartments :
          /\ request' = [op |-> "get_kpis", start_date |-> s, end_date |-> e,
                         department_id |-> d]
          /\ response' = GetKpis(s, e, d)
    /\ UNCHANGED <<cases, comments>>

OverviewRequest ==
    /\ request = NoRequest
    /\ \E s \in FilterDates, e \in FilterDates, d \in FilterDepartments, now \in Clock :
          /\ request' = [op |-> "get_overview", start_date |-> s, end_date |-> e,
                         department_id |-> d]
          /\ response' \in GetOverview(s, e, d, now)
    /\ UNCHANGED <<cases, comments>>

StatisticsByTypeRequest ==
    /\ request = NoRequest
    /\ \E s \in FilterDates, e \in FilterDates, d \in FilterDepartments :
          /\ request' = [op |-> "get_statistics_by_type", start_date |-> s,
                         end_date |-> e, department_id |-> d]
          /\ response' = GetStatisticsByType(s, e, d)
    /\ UNCHANGED <<cases, comments>>

StatisticsByStatusRequest ==
    /\ request = NoRequest
    /\ \E s \in FilterDates, e \in FilterDates, d \in FilterDepartments, now \in Clock :
          /\ request' = [op |-> "get_statistics_by_status", start_date |-> s,
                         end_date |-> e, department_id |-> d]
          /\ response' = GetStatisticsByStatus(s, e, d, now)
    /\ UNCHANGED <<cases, comments>>

ManagerPerformanceRequest ==
    /\ request = NoRequest
    /\ \E s \in FilterDates, e \in FilterDates, limit \in ManagerLimits :
          /\ request' = [op |-> "get_manager_performance", start_date |-> s,
                         end_date |-> e, limit |-> limit]
          /\ response' \in GetManagerPerformance(s, e, limit)
    /\ UNCHANGED <<cases, comments>>

TrendsMonthlyRequest ==
    /\ request = NoRequest
    /\ \E s \in TrendFilterDates, e \in TrendFilterDates, months \in TrendWindows :
          /\ request' = [op |-> "get_trends_monthly", start_date |-> s,
                         end_date |-> e, n |-> months]
          /\ response' = GetTrendsMonthly(s, e, months)
    /\ UNCHANGED <<cases, comments>>

TrendsWeeklyRequest ==
    /\ request = NoRequest
    /\ \E s \in TrendFilterDates, e \in TrendFilterDates, weeks \in TrendWindows :
          /\ request' = [op |-> "get_trends_weekly", start_date |-> s,
                         end_date |-> e, n |-> weeks]
          /\ response' = GetTrendsWeekly(s, e, weeks)
    /\ UNCHANGED <<cases, comments>>

(* TimeAnalysisRequest with the rows it read written back, updated_at set *)
(* to the instant of the request.                                         *)
TimeAnalysisRequestTouching ==
    /\ request = NoRequest
    /\ \E s \in FilterDates, e \in FilterDates, now \in Clock :
          /\ request' = [op |-> "get_time_analysis", start_date |-> s,
                         end_date |-> e]
          /\ response' = GetTimeAnalysis(s, e)
          /\ cases' = [i \in Ids |-> [cases[i] EXCEPT !.updated_at = now]]
    /\ UNCHANGED comments

TimeAnalysisRequest ==
    /\ request = NoRequest
    /\ \E s \in FilterDates, e \in FilterDates :
          /\ request' = [op |-> "get_time_analysis", start_date |-> s,
                         end_date |-> e]
          /\ response' = GetTimeAnalysis(s, e)
    /\ UNCHANGED <<cases, comments>>

(* The response is handed to the caller and the request ends. *)
Reply ==
    /\ request # NoRequest
    /\ request' = NoRequest
    /\ response' = None
    /\ UNCHANGED <<cases, comments>>

Init ==
    /\ cases = <<>>
    /\ comments = {}
    /\ request = NoRequest
    /\ response = None

(* ----------------------------------------------------------------------- *)
(* get_kpis and get_overview, one database statement at a time             *)
(* ----------------------------------------------------------------------- *)

(* The statements get_kpis awaits, in order: the five counts, the two      *)
(* averages, the three counts of get_resolution_rate, the active managers. *)
KpiQueries ==
    <<"total_pqrs", "new_pqrs", "in_progress", "resolved", "closed",
      "avg_response_time_hours", "avg_resolution_time_days",
      "rate_total", "rate_resolved", "rate_closed", "active_managers">>

(* The statements get_overview awaits: those of get_kpis, then the total   *)
(* and the grouped query of each breakdown, the managers and the trends.   *)
OverviewQueries ==
    KpiQueries \o <<"by_type_total", "by_type_rows", "by_status_total",
                    "by_status_rows", "top_managers", "recent_trends">>

QueriesOf(op) == IF op = "get_kpis" THEN KpiQueries ELSE OverviewQueries

(* The rows get_statistics_by_type builds from its grouped query, the      *)
(* percentages against the total its first statement returned.             *)
TypeRowsOf(total, start_date, end_date, department_id) ==
    LET kept == ApplyFilters(Ids, start_date, end_date, department_id)
        Group(t) == {i \in kept : cases[i].type = t}
    IN  {[type |-> t,
          count |-> Cardinality(Group(t)),
          percentage |-> Percentage(Cardinality(Group(t)), total),
          resolved |-> Cardinality({i \in Group(t) : IsTerminal(cases[i])}),
          avg_resolution_days |-> RoundOrNone(AvgResolutionDays(Group(t)))]
         : t \in {cases[i].type : i \in kept}}

(* The rows get_statistics_by_status builds from its grouped query. *)
StatusRowsOf(total, start_date, end_date, department_id, now) ==
    LET kept == ApplyFilters(Ids, start_date, end_date, department_id)
        Group(s) == {i \in kept : cases[i].status = s}
    IN  {[status |-> s,
          count |-> Cardinality(Group(s)),
          percentage |-> Percentage(Cardinality(Group(s)), total),
          avg_days_in_status |-> RoundOrNone(AvgDaysInStatus(Group(s), now))]
         : s \in {cases[i].status : i \in kept}}

(* What the statement q of the request r may return on the present store,  *)
(* locals holding the results of the statements already answered.          *)
QueryResults(q, r, locals) ==
    LET s == r.start_date
        e == r.end_date
        d == r.department_id
    IN  CASE q = "total_pqrs" -> {GetTotalPqrs(s, e, d)}
          [] q = "new_pqrs" -> {GetPqrsByStatus("nueva", s, e, d)}
          [] q = "in_progress" -> {GetPqrsByStatus("en_proceso", s, e, d)}
          [] q = "resolved" -> {GetPqrsByStatus("resuelta", s, e, d)}
          [] q = "closed" -> {GetPqrsByStatus("cerrada", s, e, d)}
          [] q = "avg_response_time_hours" -> {GetAvgResponseTimeHours(s, e)}
          [] q = "avg_resolution_time_days" -> {GetAvgResolutionTimeDays(s, e)}
          [] q = "rate_total" -> {GetTotalPqrs(s, e, None)}
          [] q = "rate_resolved" -> {GetPqrsByStatus("resuelta", s, e, None)}
          [] q = "rate_closed" -> {GetPqrsByStatus("cerrada", s, e, None)}
          [] q = "active_managers" -> {GetActiveManagersCount}
          [] q = "by_type_total" -> {GetTotalPqrs(s, e, d)}
          [] q = "by_type_rows" -> {TypeRowsOf(locals.by_type_total, s, e, d)}
          [] q = "by_status_total" -> {GetTotalPqrs(s, e, d)}
          [] q = "by_status_rows" ->
                {StatusRowsOf(locals.by_status_total, s, e, d, r.now)}
          [] q = "top_managers" -> RepoManagerPerformance(s, e, TopManagersLimit)
          [] q = "recent_trends" -> {GetTrendsByMonth(s, e, RecentTrendMonths)}

(* The position of the statement q in the sequence qs. *)
IndexOf(q, qs) == CHOOSE k \in 1 .. Len(qs) : qs[k] = q

(* The statement awaited after q was answered with v: get_resolution_rate  *)
(* returns at once on a total of 0, and the last statement is followed by  *)
(* the construction of the response.                                       *)
NextQuery(op, q, v) ==
    LET qs == QueriesOf(op)
        k == IndexOf(q, qs)
    IN  IF q = "rate_total" /\ v = 0 THEN "active_managers"
        ELSE IF k = Len(qs) THEN "return"
        ELSE qs[k + 1]

(* OverviewKPIs(...) as get_kpis builds it from what it awaited. *)
KpisFrom(locals) ==
    [total_pqrs |-> locals.total_pqrs,
     new_pqrs |-> locals.new_pqrs,
     in_progress |-> locals.in_progress,
     resolved |-> locals.resolved,
     closed |-> locals.closed,
     avg_response_time_hours |-> locals.avg_response_time_hours,
     avg_resolution_time_days |-> locals.avg_resolution_time_days,
     resolution_rate |->
        IF locals.rate_total = 0 THEN 0
        ELSE Round2((locals.rate_resolved + locals.rate_closed) * 100,
                    locals.rate_total),
     satisfaction_rate |-> None,
     active_managers |-> locals.active_managers]

(* DashboardOverview(...) as get_overview builds it. *)
OverviewFrom(r) ==
    [kpis |-> KpisFrom(r.locals),
     by_type |-> r.locals.by_type_rows,
     by_status |-> r.locals.by_status_rows,
     top_managers |-> r.locals.top_managers,
     recent_trends |-> r.locals.recent_trends,
     generated_at |-> r.now,
     period_start |-> r.start_date,
     period_end |-> r.end_date]

(* The response of general_exception_handler. *)
InternalServerError ==
    [status_code |-> 500, detail |-> "Error interno del servidor"]

(* Whether a get_kpis or get_overview call is awaiting a statement. *)
Awaiting ==
    /\ request # NoRequest
    /\ request.pc \notin {"return", "done"}
    /\ ~request.stalled

(* A call of get_kpis or get_overview starts: nothing awaited yet. *)
Call(op, dates, departments) ==
    /\ request = NoRequest
    /\ \E s \in dates, e \in dates, d \in departments, now \in Clock :
          request' = [op |-> op, start_date |-> s, end_date |-> e,
                      department_id |-> d, now |-> now, pc |-> QueriesOf(op)[1],
                      locals |-> <<>>, raised |-> None, stalled |-> FALSE]
    /\ UNCHANGED <<cases, comments, response>>

(* SubQueryRaises with the exception caught, the metric set to 0 and the   *)
(* call going on.                                                          *)
SubQueryRaisesSwallowed ==
    /\ Awaiting
    /\ request.raised = None
    /\ request' = [request EXCEPT
                      !.locals = (request.pc :> 0) @@ @,
                      !.raised = Some(request.pc),
                      !.pc = NextQuery(request.op, request.pc, 0)]
    /\ UNCHANGED <<cases, comments, response>>

(* The awaited statement is answered by the store. *)
SubQueryAnswers ==
    /\ Awaiting
    /\ \E v \in QueryResults(request.pc, request, request.locals) :
          request' = [request EXCEPT
                         !.locals = (request.pc :> v) @@ @,
                         !.pc = NextQuery(request.op, request.pc, v)]
    /\ UNCHANGED <<cases, comments, response>>

(* The awaited statement raises (store unavailable): nothing in the        *)
(* repository, the service or the endpoint catches the exception, so it    *)
(* reaches general_exception_handler, which answers the request.           *)
SubQueryRaises ==
    /\ Awaiting
    /\ request.raised = None
    /\ request' = [request EXCEPT !.raised = Some(request.pc), !.pc = "done"]
    /\ response' = InternalServerError
    /\ UNCHANGED <<cases, comments>>

(* The store stops answering: db.execute is awaited without a timeout.     *)
StoreStalls ==
    /\ Awaiting
    /\ request' = [request EXCEPT !.stalled = TRUE]
    /\ UNCHANGED <<cases, comments, response>>

(* Every statement was answered: the response model is built and returned. *)
Return ==
    /\ request # NoRequest
    /\ request.pc = "return"
    /\ request' = [request EXCEPT !.pc = "done"]
    /\ response' = IF request.op = "get_kpis" THEN KpisFrom(request.locals)
                   ELSE OverviewFrom(request)
    /\ UNCHANGED <<cases, comments>>

(* The response of a finished call is handed to the caller. *)
ReplyWhenDone ==
    /\ request # NoRequest
    /\ request.pc = "done"
    /\ Reply

(* Another session commits a new row while a call may be in progress. *)
ConcurrentCreate(types, statuses) ==
    /\ Len(cases) < MaxCases
    /\ \E t \in types, s \in statuses :
          cases' = Append(cases, [type |-> t, status |-> s, created_at |-> 0,
                                  updated_at |-> 48, assigned_to |-> None,
                                  department_id |-> 1])
    /\ UNCHANGED <<comments, request, response>>

(* Another session commits a status change while a call may be in progress. *)
ConcurrentStatusChange(statuses) ==
    /\ \E i \in Ids, s \in statuses :
          /\ ~IsTerminal(cases[i])
          /\ cases[i].status # s
          /\ cases' = [cases EXCEPT ![i].status = s]
    /\ UNCHANGED <<comments, request, response>>

(* ----------------------------------------------------------------------- *)
(* Deadlines: PQRS.is_overdue and the semaphore                            *)
(* ----------------------------------------------------------------------- *)

(* Settings.SEMAPHORE_GREEN_THRESHOLD, per cent of the term elapsed. *)
SEMAPHORE_GREEN_THRESHOLD == 60

(* Settings.SEMAPHORE_YELLOW_THRESHOLD, per cent of the term elapsed. *)
SEMAPHORE_YELLOW_THRESHOLD == 90

(* SemaphoreColor, the values of the pqrs.semaphore_color column. *)
SemaphoreColor == {"verde", "amarillo", "rojo"}

(* PQRS.is_overdue of the row c read when utcnow() is now. *)
IsOverdue(c, now) ==
    IF c.resolved_at # None THEN FALSE ELSE now > c.due_date

(* DaysRemaining without the lower limit of 0. *)
DaysRemainingUnclamped(c, now) ==
    LET days == (c.due_date - now) \div HoursPerDay
    IN  IF c.resolved_at # None THEN 0 ELSE days

(* PQRS.days_remaining of the row c read when utcnow() is now: 0 for a row *)
(* with resolved_at, else the days of the timedelta due_date - utcnow()    *)
(* (its floor in whole days), never below 0.                               *)
DaysRemaining(c, now) ==
    LET days == (c.due_date - now) \div HoursPerDay
    IN  IF c.resolved_at # None THEN 0
        ELSE IF days > 0 THEN days ELSE 0

(* SemaphoreState with the yellow band closed below only: exactly 90 per   *)
(* cent of the term is already rojo.                                       *)
SemaphoreStateOpenAbove(c, now) ==
    LET term == c.due_date - c.created_at
        elapsed == IF now > c.created_at THEN now - c.created_at ELSE 0
    IN  IF IsTerminal(c) THEN "verde"
        ELSE IF term <= 0 THEN "rojo"
        ELSE IF 100 * elapsed < SEMAPHORE_GREEN_THRESHOLD * term THEN "verde"
        ELSE IF 100 * elapsed < SEMAPHORE_YELLOW_THRESHOLD * term THEN "amarillo"
        ELSE "rojo"

(* The semaphore colour of the row c at the instant now: verde for a       *)
(* terminal case, rojo for a term that is not positive, else by the per    *)
(* cent of the term elapsed (never below 0) against the two thresholds.    *)
SemaphoreState(c, now) ==
    LET term == c.due_date - c.created_at
        elapsed == IF now > c.created_at THEN now - c.created_at ELSE 0
    IN  IF IsTerminal(c) THEN "verde"
        ELSE IF term <= 0 THEN "rojo"
        ELSE IF 100 * elapsed < SEMAPHORE_GREEN_THRESHOLD * term THEN "verde"
        ELSE IF 100 * elapsed <= SEMAPHORE_YELLOW_THRESHOLD * term THEN "amarillo"
        ELSE "rojo"

(* Terms of a case in hours: none (due at creation) and 100 days. *)
Terms == {0, 2400}

(* Hours from the creation of a case to the reading of its deadline: two   *)
(* days before, just under and exactly 60 per cent of 100 days, exactly    *)
(* and just over 90 per cent, exactly and just over 100 days.              *)
ReadingDelays == {-48, 1439, 1440, 2160, 2161, 2400, 2401}

(* A row with a deadline is inserted; resolved_at is set with a terminal   *)
(* status.                                                                 *)
CreateCaseWithDeadline(statuses, createds, delays, terms) ==
    /\ request = NoRequest
    /\ Len(cases) < MaxCases
    /\ \E s \in statuses, c \in createds, d \in delays, t \in terms :
          cases' = Append(cases,
                          [type |-> "peticion", status |-> s, created_at |-> c,
                           updated_at |-> c + d, assigned_to |-> None,
                           department_id |-> 1, due_date |-> c + t,
                           resolved_at |-> IF s \in {"resuelta", "cerrada"}
                                           THEN Some(c + d) ELSE None])
    /\ UNCHANGED <<comments, request, response>>

(* The is_overdue property of a row is read. *)
IsOverdueRead ==
    /\ request = NoRequest
    /\ \E i \in Ids, d \in ReadingDelays :
          LET now == cases[i].created_at + d
          IN  /\ request' = [op |-> "is_overdue", id |-> i, now |-> now]
              /\ response' = IsOverdue(cases[i], now)
    /\ UNCHANGED <<cases, comments>>

(* The days_remaining property of a row is read. *)
DaysRemainingRead ==
    /\ request = NoRequest
    /\ \E i \in Ids, d \in ReadingDelays :
          LET now == cases[i].created_at + d
          IN  /\ request' = [op |-> "days_remaining", id |-> i, now |-> now]
              /\ response' = DaysRemaining(cases[i], now)
    /\ UNCHANGED <<cases, comments>>

(* The semaphore colour of a row is computed. *)
SemaphoreRead ==
    /\ request = NoRequest
    /\ \E i \in Ids, d \in ReadingDelays :
          LET now == cases[i].created_at + d
          IN  /\ request' = [op |-> "semaphore_color", id |-> i, now |-> now]
              /\ response' = SemaphoreState(cases[i], now)
    /\ UNCHANGED <<cases, comments>>

(* ----------------------------------------------------------------------- *)
(* get_async_db: the session of a request                                  *)
(* ----------------------------------------------------------------------- *)

(* Whether the dependency of the request in progress is at position pc. *)
SessionAt(pc) ==
    /\ request # NoRequest
    /\ request.pc = pc

(* async with AsyncSessionLocal() as session: ... yield session *)
OpenSession ==
    /\ request = NoRequest
    /\ request' = [op |-> "get_async_db", pc |-> "yield", handler |-> "running",
                   calls |-> <<>>, raised |-> FALSE]
    /\ UNCHANGED <<cases, comments, response>>

(* The handler returns: execution resumes after the yield. *)
HandlerReturns ==
    /\ SessionAt("yield")
    /\ request' = [request EXCEPT !.handler = "returned", !.pc = "commit"]
    /\ UNCHANGED <<cases, comments, response>>

(* The handler raises: the exception is thrown in at the yield and caught  *)
(* by except Exception.                                                    *)
HandlerRaises ==
    /\ SessionAt("yield")
    /\ request' = [request EXCEPT !.handler = "raised", !.pc = "rollback"]
    /\ UNCHANGED <<cases, comments, response>>

(* await session.commit() returns. *)
CommitReturns ==
    /\ SessionAt("commit")
    /\ request' = [request EXCEPT !.calls = Append(@, "commit"), !.pc = "finally"]
    /\ UNCHANGED <<cases, comments, response>>

(* await session.commit() raises: the except clause takes over. *)
CommitRaises ==
    /\ SessionAt("commit")
    /\ request' = [request EXCEPT !.calls = Append(@, "commit"), !.pc = "rollback"]
    /\ UNCHANGED <<cases, comments, response>>

(* Rollback with the session committed instead of rolled back. *)
RollbackCommitting ==
    /\ SessionAt("rollback")
    /\ request' = [request EXCEPT !.calls = Append(@, "commit"),
                                  !.raised = TRUE, !.pc = "finally"]
    /\ UNCHANGED <<cases, comments, response>>

(* except Exception: await session.rollback(); raise *)
Rollback ==
    /\ SessionAt("rollback")
    /\ request' = [request EXCEPT !.calls = Append(@, "rollback"),
                                  !.raised = TRUE, !.pc = "finally"]
    /\ UNCHANGED <<cases, comments, response>>

(* finally: await session.close() *)
CloseInFinally ==
    /\ SessionAt("finally")
    /\ request' = [request EXCEPT !.calls = Append(@, "close"), !.pc = "exit"]
    /\ UNCHANGED <<cases, comments, response>>

(* The async with block is left: the session's __aexit__ closes it again,  *)
(* and the generator ends or lets the exception through.                   *)
ExitSession ==
    /\ SessionAt("exit")
    /\ request' = [request EXCEPT !.calls = Append(@, "close"), !.pc = "done"]
    /\ response' = [exception |-> request.raised]
    /\ UNCHANGED <<cases, comments>>

(* ----------------------------------------------------------------------- *)
(* Specifications                                                          *)
(* ----------------------------------------------------------------------- *)

(* Rates and rankings: cases of two types, assigned or not. *)
CreateAssignedCase ==
    CreateCase({"peticion", "queja"}, {"en_proceso", "resuelta", "cerrada"},
               CreationTimes, {48}, {None} \cup {Some(m) : m \in ManagerIds}, {1})

Next ==
    \/ CreateAssignedCase
    \/ KpisRequest
    \/ StatisticsByTypeRequest
    \/ StatisticsByStatusRequest
    \/ ManagerPerformanceRequest
    \/ Reply

Spec == Init /\ [][Next]_vars

(* Breakdowns: cases of every type, in two departments. *)
CreateBreakdownCase ==
    CreateCase(PQRSType, {"en_proceso", "resuelta", "cerrada"}, CreationTimes,
               {48}, {None}, DepartmentIds)

BreakdownNext ==
    \/ CreateBreakdownCase
    \/ StatisticsByTypeRequest
    \/ StatisticsByStatusRequest
    \/ Reply

SpecBreakdown == Init /\ [][BreakdownNext]_vars

(* Resolution times: terminal and open cases updated at or after creation. *)
CreateResolvedCase ==
    CreateCase({"peticion", "queja"}, {"en_proceso", "resuelta", "cerrada"},
               {0}, {0, 48, 96, 144}, {None}, {1})

ResolutionNext ==
    \/ CreateResolvedCase
    \/ StatisticsByTypeRequest
    \/ Reply

SpecResolution == Init /\ [][ResolutionNext]_vars

(* KPIs and overview: cases in every KPI status, commented or not. *)
CreateKpiCase ==
    CreateCase({"peticion"}, {"nueva", "en_proceso", "resuelta", "cerrada"},
               CreationTimes, {0, 48}, {None, Some(1)}, DepartmentIds)

AddFirstComment == AddComment({24})

KpisNext ==
    \/ CreateKpiCase
    \/ AddFirstComment
    \/ KpisRequest
    \/ OverviewRequest
    \/ Reply

SpecKpis == Init /\ [][KpisNext]_vars

(* Trends: cases created in different months, ISO weeks and years. *)
CreateDatedCase ==
    CreateCase({"peticion"}, {"en_proceso", "resuelta"}, TrendCreationTimes,
               {48}, {None}, {1})

TrendsNext ==
    \/ CreateDatedCase
    \/ TrendsMonthlyRequest
    \/ TrendsWeeklyRequest
    \/ Reply

SpecTrends == Init /\ [][TrendsNext]_vars

(* Time analysis: cases created at midnight of 1 Jan and of 2 Jan 2024     *)
(* (the instant a filter date of 2 Jan compares as), updated just under a  *)
(* day and exactly 1, 3, 7 and 15 days later.                              *)
CreateTimedCase ==
    CreateCase({"peticion"}, {"en_proceso", "resuelta", "cerrada"}, {0, 24},
               {23, 24, 72, 168, 360}, {None}, {1})

TimesNext ==
    \/ CreateTimedCase
    \/ TimeAnalysisRequest
    \/ KpisRequest
    \/ Reply

SpecTimes == Init /\ [][TimesNext]_vars

(* Failures: calls served statement by statement on a store that may       *)
(* raise or stop answering; the filter dates are absent, 2 Jan or 3 Jan    *)
(* 2024, so that a start after the end is among the requests.              *)
StepFilterDates == {None, Some(1), Some(2)}

CreateReportedCase ==
    CreateCase({"peticion", "queja"}, {"en_proceso", "resuelta"}, {0}, {48},
               {None, Some(1)}, {1})

KpisCall == Call("get_kpis", StepFilterDates, FilterDepartments)

OverviewCall == Call("get_overview", StepFilterDates, FilterDepartments)

FailuresNext ==
    \/ CreateReportedCase
    \/ KpisCall
    \/ OverviewCall
    \/ SubQueryAnswers
    \/ SubQueryRaises
    \/ StoreStalls
    \/ Return
    \/ ReplyWhenDone

SpecFailures == Init /\ [][FailuresNext]_vars

(* Concurrency: an unfiltered get_overview served statement by statement   *)
(* while other sessions insert cases and resolve them.                     *)
UnfilteredOverviewCall == Call("get_overview", {None}, {None})

CaseCommitted == ConcurrentCreate({"peticion", "queja"}, {"en_proceso"})

CaseResolved == ConcurrentStatusChange({"resuelta"})

ConcurrentNext ==
    \/ CaseCommitted
    \/ CaseResolved
    \/ UnfilteredOverviewCall
    \/ SubQueryAnswers
    \/ Return
    \/ ReplyWhenDone

SpecConcurrent == Init /\ [][ConcurrentNext]_vars

(* Every operation of the dashboard, on cases assigned or not. *)
CreateAnyCase ==
    CreateCase({"peticion"}, {"en_proceso", "resuelta"}, CreationTimes, {48},
               {None, Some(1)}, {1})

ReadOnlyNext ==
    \/ CreateAnyCase
    \/ OverviewRequest
    \/ KpisRequest
    \/ StatisticsByTypeRequest
    \/ StatisticsByStatusRequest
    \/ ManagerPerformanceRequest
    \/ TrendsMonthlyRequest
    \/ TrendsWeeklyRequest
    \/ TimeAnalysisRequest
    \/ Reply

SpecReadOnly == Init /\ [][ReadOnlyNext]_vars

(* Deadlines: open and terminal cases with and without a term. *)
CreateDueCase ==
    CreateCaseWithDeadline({"en_proceso", "resuelta", "cerrada"}, {48}, {24}, Terms)

DeadlinesNext ==
    \/ CreateDueCase
    \/ IsOverdueRead
    \/ DaysRemainingRead
    \/ SemaphoreRead
    \/ Reply

SpecDeadlines == Init /\ [][DeadlinesNext]_vars

(* First responses: open cases commented at their creation, one day and    *)
(* three days later, any number of times.                                  *)
CreateOpenCase ==
    CreateCase({"peticion"}, {"en_proceso"}, CreationTimes, {48}, {None}, {1})

AddAnyComment == AddFurtherComment({0, 24, 72})

ResponseNext ==
    \/ CreateOpenCase
    \/ AddAnyComment
    \/ KpisRequest
    \/ TimeAnalysisRequest
    \/ Reply

SpecResponse == Init /\ [][ResponseNext]_vars

(* Managers: cases in and out of the KPI statuses, assigned to one of two  *)
(* managers or to nobody.                                                  *)
CreateManagedCase ==
    CreateCase({"peticion"},
               {"nueva", "en_proceso", "en_revision", "resuelta", "cerrada"},
               CreationTimes, {48}, {None} \cup {Some(m) : m \in ManagerIds}, {1})

ManagersNext ==
    \/ CreateManagedCase
    \/ ManagerPerformanceRequest
    \/ KpisRequest
    \/ Reply

SpecManagers == Init /\ [][ManagersNext]_vars

(* Overview of a team: more managers with cases than get_overview lists. *)
CreateNextTeamCase == CreateTeamCase({"en_proceso", "resuelta"})

TeamNext ==
    \/ CreateNextTeamCase
    \/ OverviewRequest
    \/ Reply

SpecTeam == Init /\ [][TeamNext]_vars

(* Trend buckets: cases of three months and ISO weeks, the terminal ones   *)
(* updated at their creation or two days later.                            *)
CreateBucketCase ==
    CreateCase({"peticion"}, {"en_proceso", "resuelta"}, {0, 744, 8736},
               {0, 48}, {None}, {1})

BucketsNext ==
    \/ CreateBucketCase
    \/ TrendsMonthlyRequest
    \/ TrendsWeeklyRequest
    \/ Reply

SpecBuckets == Init /\ [][BucketsNext]_vars

(* Malformed records: cases whose updated_at is two days before or after   *)
(* their created_at (both columns are NOT NULL, their order is unchecked). *)
CreateUncheckedCase ==
    CreateCase({"peticion"}, {"en_proceso", "resuelta"}, {48}, {-48, 48},
               {None}, {1})

MalformedNext ==
    \/ CreateUncheckedCase
    \/ TimeAnalysisRequest
    \/ KpisRequest
    \/ Reply

SpecMalformed == Init /\ [][MalformedNext]_vars

(* Sessions: the dependency run around a handler that returns or raises,   *)
(* on any store content.                                                   *)
SessionNext ==
    \/ CreateAnyCase
    \/ OpenSession
    \/ HandlerReturns
    \/ HandlerRaises
    \/ CommitReturns
    \/ CommitRaises
    \/ Rollback
    \/ CloseInFinally
    \/ ExitSession
    \/ ReplyWhenDone

SpecSession == Init /\ [][SessionNext]_vars

(* ----------------------------------------------------------------------- *)
(* Properties                                                              *)
(* ----------------------------------------------------------------------- *)

(* ratio(numerator, denominator) of the specification, in hundredths. *)
Ratio(numerator, denominator) ==
    IF denominator = 0 THEN 0 ELSE Round2(numerator * 100, denominator)

(* The cases the filter of the request in progress selects. *)
Filtered == ApplyFilters(Ids, request.start_date, request.end_date, request.department_id)

IsBreakdown == request.op \in {"get_statistics_by_type", "get_statistics_by_status"}

(* C1: the counts of the rows of get_statistics_by_type add up to what     *)
(* get_total_pqrs returns for the same filter on the same store content.   *)
C1_TypeCountsSumToTotal ==
    request.op = "get_statistics_by_type" =>
       SumOver(response.statistics, [r \in response.statistics |-> r.count])
          = GetTotalPqrs(request.start_date, request.end_date, request.department_id)

(* C1 witness: a breakdown by type whose department filter left a case out. *)
C1_Witness ==
    /\ request.op = "get_statistics_by_type"
    /\ request.department_id # None
    /\ Len(cases) = 2
    /\ response.total = 1

(* C8: in both breakdowns each percentage is taken against the number of   *)
(* cases the request's filter selects; the percentages of a non-empty      *)
(* result add up to 100.0 within 0.1; with no case selected every row has  *)
(* percentage 0.0.                                                         *)
C8_PercentagesOfFilteredTotal ==
    IsBreakdown =>
       LET rows == response.statistics
           sum == SumOver(rows, [r \in rows |-> r.percentage])
       IN  /\ \A r \in rows : r.percentage = Ratio(r.count, Cardinality(Filtered))
           /\ rows # {} => (sum >= 10000 - 10 /\ sum <= 10000 + 10)
           /\ Filtered = {} => \A r \in rows : r.percentage = 0

(* C8 witness: a breakdown by type over a store of two cases of which the  *)
(* filter selects one: its single row is 100.0, not 50.0.                  *)
C8_Witness ==
    /\ request.op = "get_statistics_by_type"
    /\ Cardinality(response.statistics) = 1
    /\ Cardinality(Filtered) = 1
    /\ Len(cases) = 2
    /\ \A r \in response.statistics : r.percentage = 10000

(* C9: both breakdowns have one row for every value of the dimension, with *)
(* count 0 for the values no selected case has.                            *)
C9_RowForEveryEnumValue ==
    /\ request.op = "get_statistics_by_type" =>
          {r.type : r \in response.statistics} = PQRSType
    /\ request.op = "get_statistics_by_status" =>
          {r.status : r \in response.statistics} = StatusNames

(* C10: in each row of get_statistics_by_type, count is the number of      *)
(* selected cases of the type, resolved the number of those in a terminal  *)
(* status, and avg_resolution_days the mean of updated_at - created_at in  *)
(* days over those terminal cases alone.                                   *)
C10_TypeRowFigures ==
    request.op = "get_statistics_by_type" =>
       \A r \in response.statistics :
          LET mine == {i \in Filtered : cases[i].type = r.type}
              done == {i \in mine : cases[i].status \in {"resuelta", "cerrada"}}
              hours == SumOver(done, [i \in done |->
                                         cases[i].updated_at - cases[i].created_at])
          IN  /\ r.count = Cardinality(mine)
              /\ r.resolved = Cardinality(done)
              /\ r.avg_resolution_days =
                    IF done = {} THEN None
                    ELSE Some(Round2(hours, HoursPerDay * Cardinality(done)))

(* C7: every percentage and rate is 0.0 on a zero denominator and          *)
(* round(numerator / denominator * 100, 2) otherwise: the KPI resolution   *)
(* rate over the cases its queries count, the breakdown percentages over   *)
(* the selected cases, each manager's rate over the manager's own row.     *)
(* (A division by zero would stop the evaluation of the operation.)        *)
C7_RatesFollowRatio ==
    /\ request.op = "get_kpis" =>
          LET counted == ApplyDates(Ids, request.start_date, request.end_date)
              done == {i \in counted : cases[i].status \in {"resuelta", "cerrada"}}
          IN  response.resolution_rate = Ratio(Cardinality(done), Cardinality(counted))
    /\ IsBreakdown =>
          \A r \in response.statistics :
             r.percentage = Ratio(r.count, Cardinality(Filtered))
    /\ request.op = "get_manager_performance" =>
          \A k \in 1 .. Len(response.managers) :
             response.managers[k].resolution_rate
                = Ratio(response.managers[k].resolved, response.managers[k].total_assigned)

(* C7 witness: KPIs over a non-empty store of which the filter selects no  *)
(* case: the rate has denominator 0 and is 0.0.                            *)
C7_Witness ==
    /\ request.op = "get_kpis"
    /\ cases # <<>>
    /\ response.total_pqrs = 0
    /\ response.resolution_rate = 0

(* C6: the managers are listed by total_assigned descending, and managers  *)
(* with equal total_assigned by ascending manager_id.                      *)
C6_RankingTieBreak ==
    request.op = "get_manager_performance" =>
       \A a, b \in 1 .. Len(response.managers) :
          a < b =>
             LET x == response.managers[a]
                 y == response.managers[b]
             IN  \/ x.total_assigned > y.total_assigned
                 \/ /\ x.total_assigned = y.total_assigned
                    /\ x.manager_id < y.manager_id

(* The KPI snapshot k computed over the cases of F alone. *)
KpisOver(F, k) ==
    LET InStatus(st) == Cardinality({i \in F : cases[i].status = st})
        open == {i \in F : /\ cases[i].assigned_to # None
                           /\ cases[i].status \notin {"resuelta", "cerrada"}}
    IN  /\ k.total_pqrs = Cardinality(F)
        /\ k.new_pqrs = InStatus("nueva")
        /\ k.in_progress = InStatus("en_proceso")
        /\ k.resolved = InStatus("resuelta")
        /\ k.closed = InStatus("cerrada")
        /\ k.avg_response_time_hours = RoundOrNone(AvgResponseHours(F))
        /\ k.avg_resolution_time_days = RoundOrNone(AvgResolutionDays(F))
        /\ k.resolution_rate = Ratio(InStatus("resuelta") + InStatus("cerrada"),
                                     Cardinality(F))
        /\ k.active_managers = Cardinality({cases[i].assigned_to[1] : i \in open})

(* C2: every figure of one get_kpis / get_overview response is computed    *)
(* over exactly the cases the request's filter (dates and department)      *)
(* selects.                                                                *)
C2_OnePopulation ==
    /\ request.op = "get_kpis" => KpisOver(Filtered, response)
    /\ request.op = "get_overview" =>
          LET assigned == {i \in Filtered : cases[i].assigned_to # None}
              top == response.top_managers
              trends == response.recent_trends
          IN  /\ KpisOver(Filtered, response.kpis)
              /\ \A k \in 1 .. Len(top) :
                    top[k] = ManagerRow(top[k].manager_id, assigned)
              /\ \A k \in 1 .. Len(trends) :
                    trends[k] = TrendRow(trends[k].period,
                                   {i \in Filtered :
                                       ToCharMonth(cases[i].created_at) = trends[k].period})

(* C3: the resolution_rate of a KPI snapshot is ratio(resolved + closed,   *)
(* total_pqrs) of the same snapshot.                                       *)
C3_RateOfSnapshot ==
    request.op = "get_kpis" =>
       response.resolution_rate
          = Ratio(response.resolved + response.closed, response.total_pqrs)

IsTrends == request.op \in {"get_trends_monthly", "get_trends_weekly"}

(* The period label of the request in progress for the instant ts. *)
PeriodOf(ts) ==
    IF request.op = "get_trends_monthly" THEN ToCharMonth(ts) ELSE ToCharIsoWeek(ts)

(* The cases a trends request in progress selects. *)
TrendCases == ApplyDates(Ids, request.start_date, request.end_date)

(* C4: a trends request for n periods returns exactly n points, the count  *)
(* of each being the number of selected cases created in its period (0     *)
(* for a period without cases).                                            *)
C4_WindowAlwaysFull ==
    IsTrends =>
       /\ Len(response.trends) = request.n
       /\ \A k \in 1 .. Len(response.trends) :
             response.trends[k].count =
                Cardinality({i \in TrendCases :
                                PeriodOf(cases[i].created_at) = response.trends[k].period})

(* C5: the trend points are in strictly ascending order of period label,   *)
(* which is the chronological order of their cases, no label twice; and    *)
(* when more than n periods have cases the points are those of the n       *)
(* latest.                                                                 *)
C5_TrendsAscendingLatest ==
    IsTrends =>
       LET t == response.trends
           all == {PeriodOf(cases[i].created_at) : i \in TrendCases}
           shown == {t[k].period : k \in 1 .. Len(t)}
       IN  /\ \A k \in 1 .. Len(t) - 1 : LexLess(t[k].period, t[k + 1].period)
           /\ \A k, l \in 1 .. Len(t) : \A i, j \in TrendCases :
                 (/\ k < l
                  /\ PeriodOf(cases[i].created_at) = t[k].period
                  /\ PeriodOf(cases[j].created_at) = t[l].period)
                    => cases[i].created_at < cases[j].created_at
           /\ shown \subseteq all
           /\ Len(t) = (IF request.n < Cardinality(all) THEN request.n
                        ELSE Cardinality(all))
           /\ \A p \in all \ shown : \A q \in shown : LexLess(p, q)

(* C5 witness: a trends response of two points. *)
C5_Witness ==
    /\ IsTrends
    /\ Len(response.trends) = 2

(* C11: every optional average returned is None exactly when no case       *)
(* contributes to it; with contributing cases whose mean is 0 it is 0.0:   *)
(* the per-type avg_resolution_days, the time-analysis avg_resolution_days *)
(* and the two KPI averages.                                               *)
C11_AverageNoneIffEmpty ==
    /\ request.op = "get_statistics_by_type" =>
          \A r \in response.statistics :
             LET done == {i \in Filtered : /\ cases[i].type = r.type
                                           /\ IsTerminal(cases[i])}
             IN  /\ r.avg_resolution_days = None <=> done = {}
                 /\ (done # {} /\ \A i \in done : ResolutionHours(cases[i]) = 0)
                       => r.avg_resolution_days = Some(0)
    /\ request.op = "get_time_analysis" =>
          LET done == {i \in ApplyDates(Ids, request.start_date, request.end_date) :
                          IsTerminal(cases[i])}
          IN  response.avg_resolution_days = None <=> done = {}
    /\ request.op = "get_kpis" =>
          LET kept == ApplyDates(Ids, request.start_date, request.end_date)
              done == {i \in kept : IsTerminal(cases[i])}
              answered == {i \in kept : \E c \in comments : c.pqrs_id = i}
          IN  /\ response.avg_resolution_time_days = None <=> done = {}
              /\ response.avg_response_time_hours = None <=> answered = {}

(* The cases created in the half-open range start <= created_at < end of   *)
(* the request in progress, an absent bound leaving its side open.         *)
InHalfOpenRange ==
    {i \in Ids :
        /\ (request.start_date # None
               => cases[i].created_at >= request.start_date[1] * HoursPerDay)
        /\ (request.end_date # None
               => cases[i].created_at < request.end_date[1] * HoursPerDay)}

(* C14: a case matches the date filter exactly when start <= created_at <  *)
(* end, a case created at the end bound being left out; an absent bound    *)
(* leaves its side open.  So get_kpis counts and averages the cases of the *)
(* half-open range, and get_time_analysis distributes its terminal cases.  *)
C14_HalfOpenDateRange ==
    /\ request.op = "get_kpis" =>
          /\ response.total_pqrs =
                Cardinality({i \in InHalfOpenRange :
                                Truthy(request.department_id) =>
                                   cases[i].department_id = request.department_id[1]})
          /\ response.avg_resolution_time_days
                = RoundOrNone(AvgResolutionDays(InHalfOpenRange))
    /\ request.op = "get_time_analysis" =>
          response.resolved_within_24h + response.resolved_within_3d
             + response.resolved_within_7d + response.resolved_within_15d
             + response.resolved_over_15d
                = Cardinality({i \in InHalfOpenRange : IsTerminal(cases[i])})

(* C18: get_time_analysis counts every terminal case the date conditions   *)
(* keep in exactly one bucket, by days = (updated_at - created_at) in      *)
(* days: [0, 1), [1, 3), [3, 7), [7, 15) and 15 or more; the five counts   *)
(* add up to the number of those terminal cases.                           *)
C18_BucketsPartitionTerminal ==
    request.op = "get_time_analysis" =>
       LET done == {i \in ApplyDates(Ids, request.start_date, request.end_date) :
                       cases[i].status \in {"resuelta", "cerrada"}}
           Hours(i) == cases[i].updated_at - cases[i].created_at
           Between(lo, hi) ==
              Cardinality({i \in done : /\ lo * HoursPerDay <= Hours(i)
                                        /\ Hours(i) < hi * HoursPerDay})
       IN  /\ response.resolved_within_24h
                 = Cardinality({i \in done : Hours(i) < HoursPerDay})
           /\ response.resolved_within_3d = Between(1, 3)
           /\ response.resolved_within_7d = Between(3, 7)
           /\ response.resolved_within_15d = Between(7, 15)
           /\ response.resolved_over_15d
                 = Cardinality({i \in done : Hours(i) >= 15 * HoursPerDay})
           /\ response.resolved_within_24h + response.resolved_within_3d
                 + response.resolved_within_7d + response.resolved_within_15d
                 + response.resolved_over_15d = Cardinality(done)

(* C18 witness: a time analysis over a case resolved in exactly 1 day,     *)
(* counted within 3 days, and one resolved in exactly 15 days, counted     *)
(* over 15 days.                                                           *)
C18_Witness ==
    /\ request.op = "get_time_analysis"
    /\ \E i \in Ids : IsTerminal(cases[i]) /\ ResolutionHours(cases[i]) = 1 * HoursPerDay
    /\ \E i \in Ids : IsTerminal(cases[i]) /\ ResolutionHours(cases[i]) = 15 * HoursPerDay
    /\ response.resolved_within_24h = 0
    /\ response.resolved_within_3d = 1
    /\ response.resolved_over_15d = 1

(* C12: when a statement of get_kpis or get_overview raises, the request   *)
(* ends with the one error response and never with a report: a report is   *)
(* returned only by a call none of whose statements raised, and it is      *)
(* built from the answers of all of them.                                  *)
C12_FailurePropagates ==
    request # NoRequest =>
       /\ request.raised # None =>
             /\ request.pc = "done"
             /\ response = InternalServerError
       /\ (request.pc = "done" /\ request.raised = None) =>
             /\ \A k \in 1 .. Len(QueriesOf(request.op)) :
                   \/ QueriesOf(request.op)[k] \in DOMAIN request.locals
                   \/ /\ QueriesOf(request.op)[k] \in {"rate_resolved", "rate_closed"}
                      /\ request.locals.rate_total = 0
             /\ response = IF request.op = "get_kpis" THEN KpisFrom(request.locals)
                           ELSE OverviewFrom(request)
       /\ request.pc # "done" => response = None

(* C12 witness: the grouped query of the breakdown by type raised after    *)
(* the KPI statements had been answered on a non-empty store, and the      *)
(* request ended with the error response.                                  *)
C12_Witness ==
    /\ request # NoRequest
    /\ request.op = "get_overview"
    /\ request.raised = Some("by_type_rows")
    /\ "total_pqrs" \in DOMAIN request.locals
    /\ request.locals.total_pqrs > 0
    /\ response = InternalServerError

(* C17: a request never waits forever: as long as it has not completed     *)
(* with a report or a failure it can take a step towards one, in           *)
(* particular when the store has stopped answering the awaited statement   *)
(* (the statement then times out and the failure is reported).             *)
C17_RequestCanComplete ==
    (request # NoRequest /\ request.pc # "done") =>
       ENABLED (SubQueryAnswers \/ SubQueryRaises \/ Return)

(* C16: the report of a get_overview served while other sessions insert    *)
(* and resolve cases describes one population: the by_type and by_status   *)
(* counts add up to kpis.total_pqrs, each percentage is its count over     *)
(* that total, and the resolution rate is (resolved + closed) over it.     *)
C16_OverviewConsistent ==
    (request # NoRequest /\ request.op = "get_overview" /\ request.pc = "done") =>
       LET k == response.kpis
       IN  /\ SumOver(response.by_type, [r \in response.by_type |-> r.count])
                 = k.total_pqrs
           /\ SumOver(response.by_status, [r \in response.by_status |-> r.count])
                 = k.total_pqrs
           /\ \A r \in response.by_type :
                 r.percentage = Ratio(r.count, k.total_pqrs)
           /\ \A r \in response.by_status :
                 r.percentage = Ratio(r.count, k.total_pqrs)
           /\ k.resolution_rate = Ratio(k.resolved + k.closed, k.total_pqrs)

(* C13: a request whose start_date is after its end_date is rejected       *)
(* before any statement is sent to the store: none of its statements is    *)
(* ever answered and it ends with an error response, never with a report.  *)
C13_InvertedRangeRejected ==
    (/\ request # NoRequest
     /\ request.start_date # None
     /\ request.end_date # None
     /\ request.start_date[1] > request.end_date[1]) =>
       /\ DOMAIN request.locals = {}
       /\ request.pc = "done" => "status_code" \in DOMAIN response

(* C15: no dashboard operation changes the case store: every step that     *)
(* serves a request or hands its response over leaves the cases, all       *)
(* their fields and the comments as they were.                             *)
C15_StoreUnchanged ==
    [][(request # NoRequest \/ request' # NoRequest)
          => (cases' = cases /\ comments' = comments)]_vars

(* C15 witness: a time analysis served on a store holding a resolved case. *)
C15_Witness ==
    /\ request.op = "get_time_analysis"
    /\ cases # <<>>
    /\ response.resolved_within_3d > 0

(* The case a deadline reading in progress is about. *)
ReadCase == cases[request.id]

(* C19: a case in a terminal status is never reported overdue, whatever    *)
(* the time elapsed, and an open case read at its due date (the whole of   *)
(* its 100-day term elapsed) is reported overdue.                          *)
C19_OverdueReport ==
    request.op = "is_overdue" =>
       /\ IsTerminal(ReadCase) => response = FALSE
       /\ (/\ ~IsTerminal(ReadCase)
           /\ ReadCase.due_date > ReadCase.created_at
           /\ request.now = ReadCase.due_date) => response = TRUE

(* C20: the semaphore of an open case follows the fraction of its term     *)
(* elapsed, never below 0: verde under 0.60, amarillo from 0.60 to 0.90    *)
(* inclusive, rojo over 0.90; a case due at or before its creation is      *)
(* rojo.                                                                   *)
C20_SemaphoreBands ==
    (request.op = "semaphore_color" /\ ~IsTerminal(ReadCase)) =>
       LET term == ReadCase.due_date - ReadCase.created_at
           since == request.now - ReadCase.created_at
           elapsed == IF since < 0 THEN 0 ELSE since
       IN  IF ReadCase.due_date <= ReadCase.created_at THEN response = "rojo"
           ELSE /\ 10 * elapsed < 6 * term => response = "verde"
                /\ (6 * term <= 10 * elapsed /\ 10 * elapsed <= 9 * term)
                      => response = "amarillo"
                /\ 10 * elapsed > 9 * term => response = "rojo"

(* C20 witness: an open case read at exactly 90 per cent of its 100-day    *)
(* term is amarillo.                                                       *)
C20_Witness ==
    /\ request.op = "semaphore_color"
    /\ ~IsTerminal(ReadCase)
    /\ ReadCase.due_date - ReadCase.created_at = 2400
    /\ request.now - ReadCase.created_at = 2160
    /\ response = "amarillo"

(* C21: the average response time is the mean, over the cases the date     *)
(* conditions keep that have a comment, of the hours from the creation of  *)
(* the case to its earliest comment; cases without comment are left out,   *)
(* and the result is None when no kept case has a comment.                 *)
C21_MeanToEarliestComment ==
    LET kept == ApplyDates(Ids, request.start_date, request.end_date)
        answered == {i \in kept : \E c \in comments : c.pqrs_id = i}
        Earliest(i) == CHOOSE t \in {c.created_at : c \in {k \in comments : k.pqrs_id = i}} :
                          \A c \in comments : c.pqrs_id = i => t <= c.created_at
        mean == IF answered = {} THEN None
                ELSE Some(Round2(SumOver(answered,
                                         [i \in answered |->
                                             Earliest(i) - cases[i].created_at]),
                                 Cardinality(answered)))
    IN  /\ request.op = "get_kpis" => response.avg_response_time_hours = mean
        /\ request.op = "get_time_analysis" => response.avg_first_response_hours = mean

(* The cases of the date range of the request in progress assigned to m. *)
AssignedTo(m) ==
    {i \in ApplyDates(Ids, request.start_date, request.end_date) :
        cases[i].assigned_to = Some(m)}

(* C22: get_manager_performance never counts a case without assignee: the  *)
(* manager_id of every row is the id of a manager (never null), the        *)
(* total_assigned of a row is the number of                                *)
(* cases of the date range assigned to its manager, and its                *)
(* resolution_rate is ratio(resolved, total_assigned) of the row.          *)
C22_OnlyAssignedCases ==
    request.op = "get_manager_performance" =>
       \A k \in 1 .. Len(response.managers) :
          LET row == response.managers[k]
          IN  /\ row.manager_id \in ManagerIds
              /\ row.total_assigned = Cardinality(AssignedTo(row.manager_id))
              /\ row.resolution_rate = Ratio(row.resolved, row.total_assigned)

(* C22 witness: a ranking with a row, served on a store that also holds an *)
(* unassigned case of the date range.                                      *)
C22_Witness ==
    /\ request.op = "get_manager_performance"
    /\ Len(response.managers) > 0
    /\ \E i \in ApplyDates(Ids, request.start_date, request.end_date) :
          cases[i].assigned_to = None

(* C29: in every row of get_manager_performance resolved and in_progress   *)
(* count disjoint cases of the manager, so resolved + in_progress <=       *)
(* total_assigned; total_assigned >= 1; the resolution_rate is between 0   *)
(* and 100; and the number of rows, reported as total_managers, is the     *)
(* smaller of limit and the number of managers with a case assigned in the *)
(* date range.                                                             *)
C29_ManagerRowBounds ==
    request.op = "get_manager_performance" =>
       LET ranked == {m \in ManagerIds : AssignedTo(m) # {}}
           rows == response.managers
       IN  /\ \A k \in 1 .. Len(rows) :
                 /\ rows[k].resolved
                       = Cardinality({i \in AssignedTo(rows[k].manager_id) :
                                         cases[i].status \in {"resuelta", "cerrada"}})
                 /\ rows[k].in_progress
                       = Cardinality({i \in AssignedTo(rows[k].manager_id) :
                                         cases[i].status \in {"en_proceso", "en_revision",
                                                              "pendiente_informacion"}})
                 /\ rows[k].resolved + rows[k].in_progress <= rows[k].total_assigned
                 /\ rows[k].total_assigned >= 1
                 /\ 0 <= rows[k].resolution_rate
                 /\ rows[k].resolution_rate <= 10000
           /\ response.total_managers = Len(rows)
           /\ Len(rows) = IF request.limit < Cardinality(ranked) THEN request.limit
                          ELSE Cardinality(ranked)

(* C29 witness: a ranking cut by its limit, whose row has a case that is   *)
(* neither resolved nor in progress.                                       *)
C29_Witness ==
    /\ request.op = "get_manager_performance"
    /\ Len(response.managers) = request.limit
    /\ Cardinality({m \in ManagerIds : AssignedTo(m) # {}}) > request.limit
    /\ \E k \in 1 .. Len(response.managers) :
          response.managers[k].resolved + response.managers[k].in_progress
             < response.managers[k].total_assigned

(* C27: active_managers of a KPI snapshot is the number of distinct        *)
(* assignees holding a case that is neither resuelta nor cerrada; a        *)
(* manager whose cases are all terminal and the unassigned cases add       *)
(* nothing.                                                                *)
C27_ActiveManagers ==
    request.op = "get_kpis" =>
       response.active_managers
          = Cardinality({m \in ManagerIds :
                            \E i \in Ids : /\ cases[i].assigned_to = Some(m)
                                           /\ cases[i].status # "resuelta"
                                           /\ cases[i].status # "cerrada"})

(* C27 witness: a snapshot with no active manager on a store holding a     *)
(* manager whose only case is terminal and an open unassigned case.        *)
C27_Witness ==
    /\ request.op = "get_kpis"
    /\ response.active_managers = 0
    /\ \E i \in Ids : cases[i].assigned_to # None /\ IsTerminal(cases[i])
    /\ \E i \in Ids : cases[i].assigned_to = None /\ ~IsTerminal(cases[i])

(* C28: in a KPI snapshot every count is non-negative, new_pqrs +          *)
(* in_progress + resolved + closed <= total_pqrs with equality exactly     *)
(* when no selected case is in another status, and the resolution_rate is  *)
(* between 0 and 100.                                                      *)
C28_KpiCountsBounded ==
    request.op = "get_kpis" =>
       LET four == response.new_pqrs + response.in_progress + response.resolved
                      + response.closed
           others == {i \in Filtered : cases[i].status \notin
                         {"nueva", "en_proceso", "resuelta", "cerrada"}}
       IN  /\ response.total_pqrs >= 0
           /\ response.new_pqrs >= 0
           /\ response.in_progress >= 0
           /\ response.resolved >= 0
           /\ response.closed >= 0
           /\ response.active_managers >= 0
           /\ four <= response.total_pqrs
           /\ four = response.total_pqrs <=> others = {}
           /\ 0 <= response.resolution_rate
           /\ response.resolution_rate <= 10000

(* C28 witness: a snapshot whose filter selects a case en_revision and     *)
(* leaves another case out.                                                *)
C28_Witness ==
    /\ request.op = "get_kpis"
    /\ \E i \in Filtered : cases[i].status = "en_revision"
    /\ Filtered # Ids
    /\ response.new_pqrs + response.in_progress + response.resolved
          + response.closed < response.total_pqrs

C24_BucketsPartitionCases ==
    IsTrends =>
       LET t == response.trends
           all == {PeriodOf(cases[i].created_at) : i \in TrendCases}
       IN  /\ \A k, l \in 1 .. Len(t) : k # l => t[k].period # t[l].period
           /\ \A k \in 1 .. Len(t) :
                 LET mine == {i \in TrendCases :
                                 PeriodOf(cases[i].created_at) = t[k].period}
                     done == {i \in mine : cases[i].status \in {"resuelta", "cerrada"}}
                     hours == SumOver(done, [i \in done |->
                                                cases[i].updated_at - cases[i].created_at])
                 IN  /\ t[k].count = Cardinality(mine)
                     /\ t[k].resolved = Cardinality(done)
                     /\ t[k].avg_resolution_days =
                           IF done = {} THEN None
                           ELSE Some(Round2(hours, HoursPerDay * Cardinality(done)))
           /\ request.n >= Cardinality(all) =>
                 SumOver(1 .. Len(t), [k \in 1 .. Len(t) |-> t[k].count])
                    = Cardinality(TrendCases)

(* The data-model invariant of a case: last update at or after creation. *)
WellFormed(c) == c.updated_at >= c.created_at

(* C25: a case violating the data-model invariants is left out of the      *)
(* aggregates and the report on the other cases is still produced: the     *)
(* buckets and the average resolution time are those of the well-formed    *)
(* terminal cases of the date range.                                       *)
C25_MalformedExcluded ==
    LET kept == ApplyDates(Ids, request.start_date, request.end_date)
        good == {i \in kept : IsTerminal(cases[i]) /\ WellFormed(cases[i])}
        hours == SumOver(good, [i \in good |-> ResolutionHours(cases[i])])
        mean == IF good = {} THEN None
                ELSE Some(Round2(hours, HoursPerDay * Cardinality(good)))
    IN  /\ request.op = "get_time_analysis" =>
             /\ response.resolved_within_24h + response.resolved_within_3d
                   + response.resolved_within_7d + response.resolved_within_15d
                   + response.resolved_over_15d = Cardinality(good)
             /\ response.avg_resolution_days = mean
        /\ request.op = "get_kpis" => response.avg_resolution_time_days = mean

(* The positions at which c occurs in the calls made on the session. *)
CallsOf(c) == {k \in 1 .. Len(request.calls) : request.calls[k] = c}

(* C26: around a handler that returns, get_async_db calls commit exactly   *)
(* once and closes the session afterwards; around a handler that raises,   *)
(* it never calls commit, calls rollback, lets the exception through and   *)
(* closes the session; the session is closed on every path.                *)
C26_SessionLifecycle ==
    (request # NoRequest /\ request.op = "get_async_db") =>
       /\ Cardinality(CallsOf("commit")) <= 1
       /\ request.handler = "raised" => CallsOf("commit") = {}
       /\ request.pc = "done" =>
             /\ CallsOf("close") # {}
             /\ request.calls[Len(request.calls)] = "close"
             /\ request.handler = "returned" =>
                   /\ Cardinality(CallsOf("commit")) = 1
                   /\ \A k \in CallsOf("commit") : \E l \in CallsOf("close") : k < l
             /\ request.handler = "raised" =>
                   /\ CallsOf("rollback") # {}
                   /\ \A k \in CallsOf("rollback") : \E l \in CallsOf("close") : k < l
                   /\ response.exception
             /\ response.exception <=> CallsOf("rollback") # {}

(* C26 witness: the dependency has finished around a handler that raised,  *)
(* the session rolled back and closed.                                     *)
C26_Witness ==
    /\ request # NoRequest
    /\ request.op = "get_async_db"
    /\ request.pc = "done"
    /\ request.handler = "raised"
    /\ request.calls = <<"rollback", "close", "close">>

(* C30: days_remaining is a whole number of days that is never negative:   *)
(* 0 for a case with resolved_at, 0 once the due date is reached or past,  *)
(* else the whole days from now to due_date; is_overdue is true only for   *)
(* a case without resolved_at whose due_date is strictly before now, and   *)
(* for such a case days_remaining is 0.                                    *)
C30_DaysRemaining ==
    /\ request.op = "days_remaining" =>
          LET left == ReadCase.due_date - request.now
          IN  /\ response \in Nat
              /\ ReadCase.resolved_at # None => response = 0
              /\ left <= 0 => response = 0
              /\ (ReadCase.resolved_at = None /\ left > 0) =>
                    /\ 24 * response <= left
                    /\ left < 24 * (response + 1)
              /\ (ReadCase.resolved_at = None /\ ReadCase.due_date < request.now)
                    => response = 0
    /\ request.op = "is_overdue" =>
          (response = TRUE =>
              /\ ReadCase.resolved_at = None
              /\ ReadCase.due_date < request.now)

(* C30 witness: an open case read one hour under 10 days before its due    *)
(* date has 9 days remaining.                                              *)
C30_Witness ==
    /\ request.op = "days_remaining"
    /\ ReadCase.resolved_at = None
    /\ ReadCase.due_date - request.now = 239
    /\ response = 9

=============================================================================
